---- MODULE Spec2Model ----
(***************************************************************************)
(* Model of nclib/evaluation/fitness_functions.py: the partition quality   *)
(* functions of the library.  Every function is a pure computation over a  *)
(* graph and an ordered list of communities; each is an operator here and  *)
(* an action applies it to the inputs drawn by Init.                       *)
(*                                                                         *)
(* Python floats are IEEE-754 binary64 numbers.  TLC has 32-bit integers,  *)
(* so a float is kept as sign, 53-bit significand (a multi-limb natural)   *)
(* and binary exponent, and every arithmetic step rounds to nearest, ties  *)
(* to even, as the hardware does.  Overflow and subnormals are out of the  *)
(* range of the values computed here.                                      *)
(***************************************************************************)
EXTENDS Integers, Sequences, FiniteSets, TLC

(***************************************************************************)
(* Multi-limb naturals: little-endian sequences of limbs below Base, with  *)
(* no zero limb at the top; << >> is zero.                                 *)
(***************************************************************************)
LimbBits == 15
Base == 2 ^ LimbBits
MantBits == 53

RECURSIVE Pow2(_)
Pow2(n) == IF n = 0 THEN 1 ELSE 2 * Pow2(n - 1)

RECURSIVE BNorm(_)
BNorm(a) ==
    IF Len(a) = 0 THEN a
    ELSE IF a[Len(a)] = 0 THEN BNorm(SubSeq(a, 1, Len(a) - 1))
    ELSE a

BFromInt(n) ==
    IF n = 0 THEN << >>
    ELSE IF n < Base THEN <<n>>
    ELSE <<n % Base, n \div Base>>

BLimb(a, i) == IF i <= Len(a) THEN a[i] ELSE 0

RECURSIVE BAddFrom(_, _, _, _)
BAddFrom(a, b, i, carry) ==
    IF i > Len(a) /\ i > Len(b)
    THEN IF carry = 0 THEN << >> ELSE <<carry>>
    ELSE LET s == BLimb(a, i) + BLimb(b, i) + carry
         IN  <<s % Base>> \o BAddFrom(a, b, i + 1, s \div Base)

BAdd(a, b) == BAddFrom(a, b, 1, 0)

RECURSIVE BSubFrom(_, _, _, _)
BSubFrom(a, b, i, borrow) ==
    IF i > Len(a) THEN << >>
    ELSE LET d == a[i] - BLimb(b, i) - borrow
         IN  IF d < 0
             THEN <<d + Base>> \o BSubFrom(a, b, i + 1, 1)
             ELSE <<d>> \o BSubFrom(a, b, i + 1, 0)

\* a - b for a >= b
BSub(a, b) == BNorm(BSubFrom(a, b, 1, 0))

RECURSIVE BCmpFrom(_, _, _)
BCmpFrom(a, b, i) ==
    IF i = 0 THEN 0
    ELSE IF a[i] > b[i] THEN 1
    ELSE IF a[i] < b[i] THEN -1
    ELSE BCmpFrom(a, b, i - 1)

\* -1, 0 or 1 as a < b, a = b or a > b
BCmp(a, b) ==
    IF Len(a) > Len(b) THEN 1
    ELSE IF Len(a) < Len(b) THEN -1
    ELSE BCmpFrom(a, b, Len(a))

RECURSIVE BMulSmallFrom(_, _, _, _)
BMulSmallFrom(a, k, i, carry) ==
    IF i > Len(a)
    THEN IF carry = 0 THEN << >> ELSE <<carry>>
    ELSE LET p == a[i] * k + carry
         IN  <<p % Base>> \o BMulSmallFrom(a, k, i + 1, p \div Base)

\* a * k for 0 <= k < Base
BMulSmall(a, k) == IF k = 0 THEN << >> ELSE BMulSmallFrom(a, k, 1, 0)

BShiftLimbs(a, n) ==
    IF Len(a) = 0 THEN a ELSE [i \in 1..n |-> 0] \o a

RECURSIVE BMulFrom(_, _, _)
BMulFrom(a, b, i) ==
    IF i > Len(b) THEN << >>
    ELSE BAdd(BShiftLimbs(BMulSmall(a, b[i]), i - 1), BMulFrom(a, b, i + 1))

BMul(a, b) == BMulFrom(a, b, 1)

\* a * 2^n
BShl(a, n) == BShiftLimbs(BMulSmall(a, Pow2(n % LimbBits)), n \div LimbBits)

RECURSIVE BDivSmallFrom(_, _, _, _)
BDivSmallFrom(a, d, i, rem) ==
    IF i = 0 THEN [q |-> << >>, r |-> rem]
    ELSE LET cur  == rem * Base + a[i]
             rest == BDivSmallFrom(a, d, i - 1, cur % d)
         IN  [q |-> rest.q \o <<cur \div d>>, r |-> rest.r]

\* quotient and remainder of a by d, 0 < d < Base
BDivSmall(a, d) ==
    LET res == BDivSmallFrom(a, d, Len(a), 0)
    IN  [q |-> BNorm(res.q), r |-> res.r]

\* a div 2^n
BShr(a, n) ==
    LET w == n \div LimbBits
    IN  IF w >= Len(a) THEN << >>
        ELSE BDivSmall(SubSeq(a, w + 1, Len(a)), Pow2(n % LimbBits)).q

RECURSIVE IntBitLen(_)
IntBitLen(n) == IF n = 0 THEN 0 ELSE 1 + IntBitLen(n \div 2)

BBitLen(a) ==
    IF Len(a) = 0 THEN 0
    ELSE LimbBits * (Len(a) - 1) + IntBitLen(a[Len(a)])

BIsOdd(a) == Len(a) > 0 /\ a[1] % 2 = 1

(***************************************************************************)
(* binary64 numbers: [s, m, e] stands for (-1)^s * m * 2^e with m a        *)
(* significand of exactly MantBits bits, or m = << >> for zero.            *)
(***************************************************************************)
FZero == [s |-> 0, m |-> << >>, e |-> 0]

FIsZero(x) == Len(x.m) = 0

\* A significand q of MantBits or MantBits + 1 bits at exponent e, as a float
FPack(s, q, e) ==
    IF BBitLen(q) > MantBits
    THEN [s |-> s, m |-> BShr(q, 1), e |-> e + 1]
    ELSE [s |-> s, m |-> q, e |-> e]

\* q rounded up or kept, where c compares the bits dropped with one half
FRoundTie(s, q, e, sticky, c) ==
    FPack(s,
          IF c > 0 \/ (c = 0 /\ (sticky \/ BIsOdd(q)))
          THEN BAdd(q, <<1>>) ELSE q,
          e)

\* a with its sh low bits dropped, q being a div 2^sh
FRoundDrop(s, a, e, sticky, sh, q) ==
    FRoundTie(s, q, e + sh, sticky,
              BCmp(BSub(a, BShl(q, sh)), BShl(<<1>>, sh - 1)))

\* a of len bits brought to MantBits bits
FRoundLen(s, a, e, sticky, len) ==
    IF len = 0 THEN FZero
    ELSE IF len <= MantBits
    THEN [s |-> s, m |-> BShl(a, MantBits - len), e |-> e - (MantBits - len)]
    ELSE FRoundDrop(s, a, e, sticky, len - MantBits, BShr(a, len - MantBits))

\* The binary64 nearest to (-1)^s * (a + t) * 2^e, ties to even, where
\* 0 < t < 1 when sticky and t = 0 otherwise.
FRound(s, a, e, sticky) == FRoundLen(s, a, e, sticky, BBitLen(a))

\* float(n) for an integer n of magnitude below Base * Base
FFromInt(n) ==
    FRound(IF n < 0 THEN 1 ELSE 0, BFromInt(IF n < 0 THEN -n ELSE n), 0, FALSE)

FNeg(x) == IF FIsZero(x) THEN x ELSE [x EXCEPT !.s = 1 - x.s]

\* -1, 0 or 1 as |x| < |y|, |x| = |y| or |x| > |y|, both non-zero
FCmpAbs(x, y) ==
    LET e == IF x.e < y.e THEN x.e ELSE y.e
    IN  BCmp(BShl(x.m, x.e - e), BShl(y.m, y.e - e))

\* -1, 0 or 1 as x < y, x = y or x > y
FCmp(x, y) ==
    IF FIsZero(x) THEN (IF FIsZero(y) THEN 0 ELSE IF y.s = 1 THEN 1 ELSE -1)
    ELSE IF FIsZero(y) THEN (IF x.s = 1 THEN -1 ELSE 1)
    ELSE IF x.s # y.s THEN (IF x.s = 1 THEN -1 ELSE 1)
    ELSE (IF x.s = 0 THEN 1 ELSE -1) * FCmpAbs(x, y)

FLe(x, y) == FCmp(x, y) <= 0

FEq(x, y) == FCmp(x, y) = 0

\* The sum of (-1)^sx * xa * 2^e and (-1)^sy * ya * 2^e, where c compares
\* xa with ya
FAddAligned(sx, xa, sy, ya, e, c) ==
    IF sx # sy /\ c = 0 THEN FZero
    ELSE FRound(IF sx = sy \/ c > 0 THEN sx ELSE sy,
                IF sx = sy THEN BAdd(xa, ya)
                ELSE IF c > 0 THEN BSub(xa, ya) ELSE BSub(ya, xa),
                e, FALSE)

\* x + y for x and y brought to the exponent e
FAddAt(sx, xa, sy, ya, e) == FAddAligned(sx, xa, sy, ya, e, BCmp(xa, ya))

\* x + y
FAdd(x, y) ==
    IF FIsZero(x) THEN y
    ELSE IF FIsZero(y) THEN x
    ELSE LET e == IF x.e < y.e THEN x.e ELSE y.e
         IN  FAddAt(x.s, BShl(x.m, x.e - e), y.s, BShl(y.m, y.e - e), e)

\* x - y
FSub(x, y) == FAdd(x, FNeg(y))

\* x * y
FMul(x, y) ==
    IF FIsZero(x) \/ FIsZero(y) THEN FZero
    ELSE FRound((x.s + y.s) % 2, BMul(x.m, y.m), x.e + y.e, FALSE)

\* The quotient qr.q with remainder qr.r of a significand, as a float
FQuot(s, qr, e) == FRound(s, qr.q, e, qr.r # 0)

\* x / d for an integer d, 0 < d < Base
FDivInt(x, d) ==
    IF FIsZero(x) THEN FZero
    ELSE FQuot(x.s, BDivSmall(BShl(x.m, 2 * LimbBits), d), x.e - 2 * LimbBits)

\* Python's true division p / q of two integers, q > 0
FRat(p, q) == FDivInt(FFromInt(p), q)

(***************************************************************************)
(* Bounds of the inputs.                                                   *)
(***************************************************************************)
MaxNodes == 3
MaxComms == 1
ScenarioComms == 3

(***************************************************************************)
(* Graphs (networkx.Graph): a set of nodes and a set of undirected edges,  *)
(* each edge a set of two nodes (no self-loops).                           *)
(***************************************************************************)
Universe == 0..(MaxNodes - 1)

AllEdges(ns) == {e \in SUBSET ns : Cardinality(e) = 2}

number_of_nodes(g) == Cardinality(g.nodes)

number_of_edges(g) == Cardinality(g.edges)

degree(g, v) == Cardinality({e \in g.edges : v \in e})

\* nx.subgraph(graph, com): the nodes of com that are in the graph and the
\* edges of the graph between them
subgraph(g, com) ==
    [nodes |-> g.nodes \cap com,
     edges |-> {e \in g.edges : e \subseteq com}]

\* scipy.special.comb(n, 2, exact=True)
comb2(n) == (n * (n - 1)) \div 2

RECURSIVE SumOver(_, _)
SumOver(f, S) ==
    IF S = {} THEN 0
    ELSE LET x == CHOOSE y \in S : TRUE
         IN  f[x] + SumOver(f, S \ {x})

(***************************************************************************)
(* Outcomes of a call: a raised exception, a returned value, or a returned *)
(* NaN or infinity.                                                        *)
(***************************************************************************)
Raise(exc) == [kind |-> "raise", exc |-> exc]

Value(v) == [kind |-> "value", v |-> v]

NaN == [kind |-> "nan"]

Inf == [kind |-> "inf"]

(***************************************************************************)
(* quality_indexes and the scoring functions passed to it                  *)
(***************************************************************************)
\* The list of quality_indexes without edges_inside
SubgraphOnlyWithoutEdgesInside ==
    {"average_internal_degree", "internal_edge_density",
     "triangle_participation_ratio", "fraction_over_median_degree"}

\* The scoring functions that quality_indexes calls with the community alone
SubgraphOnly ==
    {"average_internal_degree", "internal_edge_density",
     "triangle_participation_ratio", "edges_inside",
     "fraction_over_median_degree"}

\* pq.PartitionQuality.edges_inside(community)
edges_inside_score(c) == FFromInt(number_of_edges(c))

\* pq.PartitionQuality.internal_edge_density(community)
internal_edge_density_score(c) ==
    LET ms == number_of_edges(c)
        ns == number_of_nodes(c)
    IN  IF comb2(ns) = 0 THEN FZero ELSE FRat(ms, comb2(ns))

\* pq.PartitionQuality.conductance(graph, community)
conductance_score(g, c) ==
    LET ms == number_of_edges(c)
        edges_outside ==
            SumOver([v \in c.nodes |->
                        Cardinality({e \in g.edges :
                                        v \in e /\ ~(e \subseteq c.nodes)})],
                    c.nodes)
    IN  IF 2 * ms + edges_outside = 0 THEN FZero
        ELSE FRat(edges_outside, 2 * ms + edges_outside)

\* The size lambda as it would be counting the nodes of its first argument
size_score_of_graph(g, c) == FFromInt(number_of_nodes(g))

\* lambda graph, com: len(com)
size_score(g, c) == FFromInt(number_of_nodes(c))

\* scoring_function(community)
call1(f, c) ==
    CASE f = "edges_inside" -> Value(edges_inside_score(c))
      [] f = "internal_edge_density" -> Value(internal_edge_density_score(c))
      [] OTHER -> Raise("TypeError")

\* scoring_function(graph, community)
call2(f, g, c) ==
    CASE f = "conductance" -> Value(conductance_score(g, c))
      [] f = "size" -> Value(size_score(g, c))
      [] OTHER -> Raise("TypeError")

\* The body of the loop of quality_indexes for one community
score(g, com, f) ==
    LET community == subgraph(g, com)
    IN  IF f \in SubgraphOnly THEN call1(f, community)
        ELSE call2(f, g, community)

RECURSIVE FMinFrom(_, _, _)
FMinFrom(xs, i, best) ==
    IF i > Len(xs) THEN best
    ELSE FMinFrom(xs, i + 1, IF FCmp(xs[i], best) < 0 THEN xs[i] ELSE best)

\* min(values)
FMin(xs) == FMinFrom(xs, 2, xs[1])

RECURSIVE FMaxFrom(_, _, _)
FMaxFrom(xs, i, best) ==
    IF i > Len(xs) THEN best
    ELSE FMaxFrom(xs, i + 1, IF FCmp(xs[i], best) > 0 THEN xs[i] ELSE best)

\* max(values)
FMax(xs) == FMaxFrom(xs, 2, xs[1])

RECURSIVE FSumFrom(_, _, _)
FSumFrom(xs, i, acc) ==
    IF i > Len(xs) THEN acc
    ELSE FSumFrom(xs, i + 1, FAdd(acc, xs[i]))

\* np.add.reduce over the values, in their order
FSum(xs) == FSumFrom(xs, 1, FZero)

\* np.mean(values)
np_mean(xs) == FDivInt(FSum(xs), Len(xs))

\* x * x
FSquare(x) == FMul(x, x)

\* abs(x - mean) ** 2 for every value x
SquaredDeviations(xs, mean) ==
    [i \in 1..Len(xs) |-> FSquare(FSub(xs[i], mean))]

\* np.std(values): the square root of the mean squared deviation, kept as
\* its radicand
np_std(xs) ==
    [sqrt_of |-> np_mean(SquaredDeviations(xs, np_mean(xs)))]

\* The summary as it would be with min and max exchanged
FitnessResultSwapped(values) ==
    [min |-> FMax(values), max |-> FMin(values),
     mean |-> np_mean(values), std |-> np_std(values)]

FitnessResult(values) ==
    [min |-> FMin(values), max |-> FMax(values),
     mean |-> np_mean(values), std |-> np_std(values)]

quality_indexes(g, comms, f, summary) ==
    LET calls == [i \in 1..Len(comms) |-> score(g, comms[i], f)]
        values == [i \in 1..Len(comms) |-> calls[i].v]
    IN  IF \E i \in 1..Len(comms) : calls[i].kind = "raise"
        THEN Raise("TypeError")
        ELSE IF summary
        THEN (IF Len(comms) = 0 THEN Raise("ValueError")
              ELSE Value(FitnessResult(values)))
        ELSE Value(values)

internal_edge_density(g, comms, summary) ==
    quality_indexes(g, comms, "internal_edge_density", summary)

edges_inside(g, comms, summary) ==
    quality_indexes(g, comms, "edges_inside", summary)

conductance(g, comms, summary) ==
    quality_indexes(g, comms, "conductance", summary)

size(g, comms, summary) == quality_indexes(g, comms, "size", summary)

(***************************************************************************)
(* newman_girvan_modularity                                                *)
(***************************************************************************)
\* The dictionary as it would be with a node of several communities keeping
\* the index of the first one
RECURSIVE build_partition_first_wins(_, _, _)
build_partition_first_wins(comms, cid, partition) ==
    IF cid > Len(comms) THEN partition
    ELSE build_partition_first_wins(comms, cid + 1,
            [node \in (DOMAIN partition) \cup comms[cid] |->
                IF node \in DOMAIN partition THEN partition[node] ELSE cid])

\* The node -> community index dictionary built by the two loops: a node of
\* several communities keeps the index of the last one.
RECURSIVE build_partition(_, _, _)
build_partition(comms, cid, partition) ==
    IF cid > Len(comms) THEN partition
    ELSE build_partition(comms, cid + 1,
            [node \in (DOMAIN partition) \cup comms[cid] |->
                IF node \in comms[cid] THEN cid ELSE partition[node]])

RECURSIVE NGSumFrom(_, _, _, _)
NGSumFrom(g, partition, ids, acc) ==
    IF ids = {} THEN acc
    ELSE LET c     == CHOOSE x \in ids : \A y \in ids : x <= y
             mem   == {v \in g.nodes \cap DOMAIN partition : partition[v] = c}
             links == number_of_edges(g)
             inc   == Cardinality({e \in g.edges : e \subseteq mem})
             deg   == SumOver([v \in mem |-> degree(g, v)], mem)
             half  == FRat(deg, 2 * links)
             term  == FSub(FRat(inc, links), FMul(half, half))
         IN  NGSumFrom(g, partition, ids \ {c}, FAdd(acc, term))

\* pq.PartitionQuality.community_modularity(partition, graph):
\* Q = sum over the communities c of e_c/m - (d_c/2m)^2
community_modularity(partition, g) ==
    IF number_of_edges(g) = 0 THEN Raise("ValueError")
    ELSE Value(NGSumFrom(g, partition,
                         {partition[v] : v \in DOMAIN partition}, FZero))

newman_girvan_modularity(g, comms) ==
    community_modularity(build_partition(comms, 1, << >>), g)

(***************************************************************************)
(* erdos_renyi_modularity                                                  *)
(***************************************************************************)
\* The loop of erdos_renyi_modularity as it would be with nc taken from the
\* community given rather than from its subgraph
RECURSIVE er_loop_given_size(_, _, _, _)
er_loop_given_size(g, comms, i, q) ==
    IF i > Len(comms) THEN q
    ELSE er_loop_given_size(g, comms, i + 1,
            FAdd(q, FSub(FFromInt(number_of_edges(subgraph(g, comms[i]))),
                         FRat(number_of_edges(g) * Cardinality(comms[i])
                                * (Cardinality(comms[i]) - 1),
                              number_of_nodes(g) * (number_of_nodes(g) - 1)))))

RECURSIVE er_loop(_, _, _, _)
er_loop(g, comms, i, q) ==
    IF i > Len(comms) THEN q
    ELSE LET m  == number_of_edges(g)
             n  == number_of_nodes(g)
             c  == subgraph(g, comms[i])
             mc == number_of_edges(c)
             nc == number_of_nodes(c)
         IN  er_loop(g, comms, i + 1,
                     FAdd(q, FSub(FFromInt(mc),
                                  FRat(m * nc * (nc - 1), n * (n - 1)))))

\* Whether a division of erdos_renyi_modularity is by zero: n*(n-1) in the
\* loop, m after it
er_raises(g, comms) ==
    \/ Len(comms) > 0 /\ number_of_nodes(g) * (number_of_nodes(g) - 1) = 0
    \/ number_of_edges(g) = 0

erdos_renyi_modularity(g, comms) ==
    IF er_raises(g, comms) THEN Raise("ZeroDivisionError")
    ELSE Value(FMul(FRat(1, number_of_edges(g)), er_loop(g, comms, 1, FZero)))

(***************************************************************************)
(* modularity_density                                                      *)
(***************************************************************************)
\* The loop of modularity_density as it would be stopping before the last
\* community
RECURSIVE md_loop_without_last(_, _, _, _)
md_loop_without_last(g, comms, i, q) ==
    IF i >= Len(comms) THEN q
    ELSE LET c    == subgraph(g, comms[i])
             nc   == number_of_nodes(c)
             dint == SumOver([v \in c.nodes |-> degree(c, v)], c.nodes)
             dext == SumOver([v \in c.nodes |-> degree(g, v) - degree(c, v)],
                             c.nodes)
         IN  md_loop_without_last(g, comms, i + 1,
                     FAdd(q, FMul(FRat(1, nc),
                                  FSub(FRat(dint, nc), FRat(dext, nc)))))

RECURSIVE md_loop(_, _, _, _)
md_loop(g, comms, i, q) ==
    IF i > Len(comms) THEN q
    ELSE LET c    == subgraph(g, comms[i])
             nc   == number_of_nodes(c)
             dint == SumOver([v \in c.nodes |-> degree(c, v)], c.nodes)
             dext == SumOver([v \in c.nodes |-> degree(g, v) - degree(c, v)],
                             c.nodes)
         IN  md_loop(g, comms, i + 1,
                     FAdd(q, FMul(FRat(1, nc),
                                  FSub(FRat(dint, nc), FRat(dext, nc)))))

\* Whether 1 / nc divides by zero for some community
md_raises(g, comms) ==
    \E i \in 1..Len(comms) : number_of_nodes(subgraph(g, comms[i])) = 0

modularity_density(g, comms) ==
    IF md_raises(g, comms) THEN Raise("ZeroDivisionError")
    ELSE Value(md_loop(g, comms, 1, FZero))

(***************************************************************************)
(* z_modularity                                                            *)
(***************************************************************************)
\* The loop of z_modularity as it would be with dc summed over the degrees
\* in the whole graph
RECURSIVE z_loop_graph_degree(_, _, _, _, _)
z_loop_graph_degree(g, comms, i, mmc, dc2m) ==
    IF i > Len(comms) THEN [mmc |-> mmc, dc2m |-> dc2m]
    ELSE LET c   == subgraph(g, comms[i])
             m   == number_of_edges(g)
             mc  == number_of_edges(c)
             dc  == SumOver([v \in c.nodes |-> degree(g, v)], c.nodes)
             t   == FRat(dc, 2 * m)
         IN  z_loop_graph_degree(g, comms, i + 1, FAdd(mmc, FRat(mc, m)),
                                 FAdd(dc2m, FMul(t, t)))

\* The loop of z_modularity from community i on, with the accumulators so
\* far.  (dc/(2*m))**2 is the rounded square of the quotient.
RECURSIVE z_loop(_, _, _, _, _)
z_loop(g, comms, i, mmc, dc2m) ==
    IF i > Len(comms) THEN [mmc |-> mmc, dc2m |-> dc2m]
    ELSE LET c   == subgraph(g, comms[i])
             m   == number_of_edges(g)
             mc  == number_of_edges(c)
             dc  == SumOver([v \in c.nodes |-> degree(c, v)], c.nodes)
             t   == FRat(dc, 2 * m)
         IN  z_loop(g, comms, i + 1, FAdd(mmc, FRat(mc, m)),
                    FAdd(dc2m, FMul(t, t)))

\* The quotient as it would be with a zero denominator answered by 0
z_quotient_zero_guard(mmc, dc2m) ==
    LET num == FSub(mmc, dc2m)
        rad == FMul(dc2m, FSub(FFromInt(1), dc2m))
    IN  IF FCmp(rad, FZero) < 0 THEN NaN
        ELSE IF FIsZero(rad) THEN Value([num |-> FZero, sqrt_of |-> FFromInt(1)])
        ELSE Value([num |-> num, sqrt_of |-> rad])

\* (mmc - dc2m) / np.sqrt(dc2m * (1 - dc2m)): a finite quotient is kept as
\* its numerator and the radicand of its denominator
z_quotient(mmc, dc2m) ==
    LET num == FSub(mmc, dc2m)
        rad == FMul(dc2m, FSub(FFromInt(1), dc2m))
    IN  IF FCmp(rad, FZero) < 0 THEN NaN
        ELSE IF FIsZero(rad) THEN (IF FIsZero(num) THEN NaN ELSE Inf)
        ELSE Value([num |-> num, sqrt_of |-> rad])

\* Whether mc / m divides by zero
z_raises(g, comms) == Len(comms) > 0 /\ number_of_edges(g) = 0

z_modularity(g, comms) ==
    IF z_raises(g, comms) THEN Raise("ZeroDivisionError")
    ELSE LET acc == z_loop(g, comms, 1, FZero, FZero)
         IN  z_quotient(acc.mmc, acc.dc2m)

(***************************************************************************)
(* surprise and significance.  A division of two Python numbers by zero    *)
(* raises; np.log and np.log2 of zero or of a negative number give an      *)
(* infinity or NaN, which makes the result NaN.  The logarithms of a       *)
(* finite result are not evaluated: it is kept as the operands of the      *)
(* formula.                                                                *)
(***************************************************************************)
RECURSIVE surprise_loop(_, _, _, _, _)
surprise_loop(g, comms, i, q, qa) ==
    IF i > Len(comms) THEN [q |-> q, qa |-> qa]
    ELSE surprise_loop(g, comms, i + 1,
                       q + number_of_edges(subgraph(g, comms[i])),
                       qa + comb2(number_of_nodes(subgraph(g, comms[i]))))

\* sp for the sums q and qa of the loop, m > 0 and pairs = comb(n, 2) > 0
surprise_sp(m, pairs, q, qa) ==
    IF qa = 0 \/ qa = pairs THEN Raise("ZeroDivisionError")
    ELSE IF q = 0 \/ q = m \/ ((q > m) # (qa > pairs)) THEN NaN
    ELSE Value([m |-> m, q |-> FRat(q, m), qa |-> FRat(qa, pairs)])

\* surprise_after_loop as it would be with the divisions done on numpy
\* numbers, which give NaN where Python's division raises
surprise_after_loop_numpy(m, pairs, acc) ==
    IF m = 0 \/ pairs = 0 THEN NaN
    ELSE surprise_sp(m, pairs, acc.q, acc.qa)

\* The divisions q/m and qa/comb(n, 2) after the loop, then sp
surprise_after_loop(m, pairs, acc) ==
    IF m = 0 \/ pairs = 0 THEN Raise("ZeroDivisionError")
    ELSE surprise_sp(m, pairs, acc.q, acc.qa)

surprise(g, comms) ==
    surprise_after_loop(number_of_edges(g), comb2(number_of_nodes(g)),
                        surprise_loop(g, comms, 1, 0, 0))

\* p = m / binom
significance_p(g) == FRat(number_of_edges(g), comb2(number_of_edges(g)))

\* pc = mc / binom_c
significance_pc(c) == FRat(number_of_edges(c), comb2(number_of_nodes(c)))

\* Whether the loop of significance divides by zero: by binom_c, or by 1 - p
significance_loop_raises(g, comms) ==
    \E i \in 1..Len(comms) :
        \/ comb2(number_of_nodes(subgraph(g, comms[i]))) = 0
        \/ FEq(significance_p(g), FFromInt(1))

\* Whether a term of the loop is NaN: a logarithm of zero times zero, or a
\* logarithm of a negative number
significance_loop_nan(g, comms) ==
    \E i \in 1..Len(comms) :
        \/ FCmp(significance_p(g), FFromInt(1)) > 0
        \/ number_of_edges(subgraph(g, comms[i])) = 0
        \/ number_of_edges(subgraph(g, comms[i]))
             = comb2(number_of_nodes(subgraph(g, comms[i])))

significance(g, comms) ==
    IF comb2(number_of_edges(g)) = 0 THEN Raise("ZeroDivisionError")
    ELSE IF significance_loop_raises(g, comms) THEN Raise("ZeroDivisionError")
    ELSE IF significance_loop_nan(g, comms) THEN NaN
    ELSE Value([p |-> significance_p(g),
                pc |-> [i \in 1..Len(comms) |->
                          significance_pc(subgraph(g, comms[i]))]])

(***************************************************************************)
(* Inputs.  A graph has nodes 0..n-1, numbered by non-increasing degree    *)
(* (the functions read a graph through its nodes, edges and degrees only,  *)
(* so one numbering of each graph suffices); a community is any set of     *)
(* nodes of the universe, in the graph or not.  The members of a list are  *)
(* drawn in non-decreasing order of SetCode; the properties on the order   *)
(* of the list apply the functions to its reorderings.  The scenarios are  *)
(* the four-node ring of the end-to-end scenario, the four-node path and   *)
(* the triangle, with longer lists of runs of consecutive nodes out of     *)
(* 0..3 (node 3 is no node of the triangle).                               *)
(***************************************************************************)
SetCode(S) == SumOver([v \in S |-> 2 ^ v], S)

SortedLists(pool, k) ==
    UNION {{s \in [1..j -> pool] :
              \A i \in 1..(j - 1) : SetCode(s[i]) <= SetCode(s[i + 1])} :
           j \in 0..k}

DegreeOrdered(g) ==
    \A u, v \in g.nodes : u < v => degree(g, u) >= degree(g, v)

Graphs ==
    {g \in UNION {[nodes : {0..(n - 1)}, edges : SUBSET AllEdges(0..(n - 1))] :
                    n \in 0..MaxNodes} : DegreeOrdered(g)}

CommunityLists == SortedLists(SUBSET Universe, MaxComms)

RingGraph == [nodes |-> 0..3, edges |-> {{0, 1}, {1, 2}, {2, 3}, {3, 0}}]

RingPartition == <<{0, 1}, {2, 3}>>

PathGraph == [nodes |-> 0..3, edges |-> {{0, 1}, {1, 2}, {2, 3}}]

TriangleGraph == [nodes |-> 0..2, edges |-> {{0, 1}, {1, 2}, {0, 2}}]

ScenarioGraphs == {RingGraph, PathGraph, TriangleGraph}

ScenarioCommunities == {a..b : a \in 0..3, b \in 0..3} \ {{}}

ScenarioLists == SortedLists(ScenarioCommunities, ScenarioComms)

VARIABLES graph, communities, op, result

vars == <<graph, communities, op, result>>

NoCall == [fn |-> "none"]

Init ==
    /\ \/ graph \in Graphs /\ communities \in CommunityLists
       \/ graph \in ScenarioGraphs /\ communities \in ScenarioLists
    /\ op = NoCall
    /\ result = [kind |-> "none"]

Call_internal_edge_density(summary) ==
    /\ op = NoCall
    /\ op' = [fn |-> "internal_edge_density", summary |-> summary]
    /\ result' = internal_edge_density(graph, communities, summary)
    /\ UNCHANGED <<graph, communities>>

Call_edges_inside(summary) ==
    /\ op = NoCall
    /\ op' = [fn |-> "edges_inside", summary |-> summary]
    /\ result' = edges_inside(graph, communities, summary)
    /\ UNCHANGED <<graph, communities>>

Call_conductance(summary) ==
    /\ op = NoCall
    /\ op' = [fn |-> "conductance", summary |-> summary]
    /\ result' = conductance(graph, communities, summary)
    /\ UNCHANGED <<graph, communities>>

Call_size(summary) ==
    /\ op = NoCall
    /\ op' = [fn |-> "size", summary |-> summary]
    /\ result' = size(graph, communities, summary)
    /\ UNCHANGED <<graph, communities>>

Call_newman_girvan_modularity ==
    /\ op = NoCall
    /\ op' = [fn |-> "newman_girvan_modularity"]
    /\ result' = newman_girvan_modularity(graph, communities)
    /\ UNCHANGED <<graph, communities>>

Call_erdos_renyi_modularity ==
    /\ op = NoCall
    /\ op' = [fn |-> "erdos_renyi_modularity"]
    /\ result' = erdos_renyi_modularity(graph, communities)
    /\ UNCHANGED <<graph, communities>>

Call_modularity_density ==
    /\ op = NoCall
    /\ op' = [fn |-> "modularity_density"]
    /\ result' = modularity_density(graph, communities)
    /\ UNCHANGED <<graph, communities>>

Call_z_modularity ==
    /\ op = NoCall
    /\ op' = [fn |-> "z_modularity"]
    /\ result' = z_modularity(graph, communities)
    /\ UNCHANGED <<graph, communities>>

Call_surprise ==
    /\ op = NoCall
    /\ op' = [fn |-> "surprise"]
    /\ result' = surprise(graph, communities)
    /\ UNCHANGED <<graph, communities>>

Call_significance ==
    /\ op = NoCall
    /\ op' = [fn |-> "significance"]
    /\ result' = significance(graph, communities)
    /\ UNCHANGED <<graph, communities>>

NextIndexes ==
    \/ Call_internal_edge_density(FALSE)
    \/ Call_edges_inside(FALSE)
    \/ Call_conductance(FALSE)
    \/ Call_size(FALSE)

NextSummary ==
    \/ Call_internal_edge_density(TRUE)
    \/ Call_edges_inside(TRUE)
    \/ Call_conductance(TRUE)
    \/ Call_size(TRUE)

NextNewmanGirvan == Call_newman_girvan_modularity

NextErdosRenyi == Call_erdos_renyi_modularity

NextModularity == Call_erdos_renyi_modularity \/ Call_modularity_density

NextZ == Call_z_modularity

NextSignificance == Call_surprise \/ Call_significance

Next ==
    \/ NextIndexes
    \/ NextSummary
    \/ NextNewmanGirvan
    \/ NextModularity
    \/ NextZ
    \/ NextSignificance

Spec == Init /\ [][Next]_vars

SpecIndexes == Init /\ [][NextIndexes]_vars

SpecSummary == Init /\ [][NextSummary]_vars

SpecNewmanGirvan == Init /\ [][NextNewmanGirvan]_vars

SpecErdosRenyi == Init /\ [][NextErdosRenyi]_vars

SpecModularity == Init /\ [][NextModularity]_vars

SpecZ == Init /\ [][NextZ]_vars

SpecSignificance == Init /\ [][NextSignificance]_vars
(***************************************************************************)
(* Properties                                                              *)
(***************************************************************************)
ZeroDivision == Raise("ZeroDivisionError")

FOne == FFromInt(1)

\* C4: on a graph without edges, surprise and significance raise for every
\* list of communities and return no number.
C4_NoEdgesRaise ==
    (op.fn \in {"surprise", "significance"} /\ number_of_edges(graph) = 0)
        => result = ZeroDivision

\* C4 happens: surprise was called on a graph of several nodes and no edge
\* with a community of two nodes or more, and raised.
C4_Witness ==
    /\ op.fn = "surprise"
    /\ number_of_edges(graph) = 0
    /\ number_of_nodes(graph) >= 2
    /\ \E i \in 1..Len(communities) :
          number_of_nodes(subgraph(graph, communities[i])) >= 2
    /\ result.kind = "raise"

\* C9 as the specification states it: in significance, for a graph of two
\* edges or more, p is computed and lies strictly between 0 and 1.
C9_BaselineIsProbability ==
    (op.fn = "significance" /\ number_of_edges(graph) >= 2)
        => /\ comb2(number_of_edges(graph)) # 0
           /\ FCmp(FZero, significance_p(graph)) < 0
           /\ FCmp(significance_p(graph), FOne) < 0


\* The nodes of the community C that are in the graph g
NodesIn(g, C) == {v \in C : v \in g.nodes}

\* The edges of the graph g with both endpoints in the community C
EdgesIn(g, C) == {e \in g.edges : \A v \in e : v \in C}

\* C2: size with summary=False returns one entry per community, the i-th
\* being the number of nodes of the i-th community that the graph has, which
\* is |Ci| for a community of nodes of the graph.
C2_SizeIsCardinality ==
    (op.fn = "size" /\ ~op.summary)
        => /\ result.kind = "value"
           /\ Len(result.v) = Len(communities)
           /\ \A i \in 1..Len(communities) :
                 /\ result.v[i]
                      = FFromInt(Cardinality(NodesIn(graph, communities[i])))
                 /\ communities[i] \subseteq graph.nodes
                      => result.v[i] = FFromInt(Cardinality(communities[i]))

\* C2 happens: size returned the sizes of two communities of different
\* sizes that partition a graph with an edge.
C2_Witness ==
    /\ op.fn = "size" /\ ~op.summary
    /\ Len(communities) = 2
    /\ number_of_edges(graph) >= 1
    /\ communities[1] \cup communities[2] = graph.nodes
    /\ communities[1] \cap communities[2] = {}
    /\ communities[1] # {} /\ communities[2] # {}
    /\ Cardinality(communities[1]) # Cardinality(communities[2])
    /\ result.kind = "value"
    /\ result.v[1] # result.v[2]

\* The metrics that take the community alone, as C6 lists them
C6_FiveMetrics ==
    {"average_internal_degree", "internal_edge_density",
     "triangle_participation_ratio", "edges_inside",
     "fraction_over_median_degree"}

\* The value of the metric f on the graph g and the induced subgraph sub
C6_Metric(f, g, sub) ==
    IF f \in C6_FiveMetrics THEN call1(f, sub) ELSE call2(f, g, sub)

\* C6: quality_indexes with summary=False returns one value per community,
\* in the order of the communities: f(sub) for the five metrics that take
\* the community alone and f(G, sub) for the others, sub having the nodes of
\* the community that are in G and the edges of G inside the community.
C6_OneValuePerCommunity ==
    (op.fn \in {"internal_edge_density", "edges_inside", "conductance", "size"}
     /\ ~op.summary)
        => /\ result.kind = "value"
           /\ Len(result.v) = Len(communities)
           /\ \A i \in 1..Len(communities) :
                 Value(result.v[i])
                   = C6_Metric(op.fn, graph,
                               [nodes |-> NodesIn(graph, communities[i]),
                                edges |-> EdgesIn(graph, communities[i])])

\* C6 happens: a metric of the five returned different values for two
\* communities, one of which has a node outside the graph.
C6_Witness ==
    /\ op.fn = "edges_inside" /\ ~op.summary
    /\ Len(communities) = 2
    /\ ~(communities[1] \subseteq graph.nodes)
    /\ result.kind = "value"
    /\ result.v[1] # result.v[2]

\* The sum of the terms mc - m*nc*(nc-1)/(n*(n-1)) of the first k communities
RECURSIVE C7_Sum(_, _, _)
C7_Sum(g, comms, k) ==
    IF k = 0 THEN FZero
    ELSE FAdd(C7_Sum(g, comms, k - 1),
              FSub(FFromInt(Cardinality(EdgesIn(g, comms[k]))),
                   FRat(number_of_edges(g)
                          * Cardinality(NodesIn(g, comms[k]))
                          * (Cardinality(NodesIn(g, comms[k])) - 1),
                        number_of_nodes(g) * (number_of_nodes(g) - 1))))

\* C7: erdos_renyi_modularity raises a division by zero when the graph has
\* at most one node or no edge, whatever the list of communities; otherwise
\* it returns (1/m) times the sum of mc - m*nc*(nc-1)/(n*(n-1)).
C7_DivisionByZero ==
    op.fn = "erdos_renyi_modularity"
        => IF number_of_nodes(graph) <= 1 \/ number_of_edges(graph) = 0
           THEN result = ZeroDivision
           ELSE result
                  = Value(FMul(FRat(1, number_of_edges(graph)),
                               C7_Sum(graph, communities, Len(communities))))

\* C7 happens: on a graph with edges the function returned a non-zero
\* number for two communities that partition the nodes.
C7_Witness ==
    /\ op.fn = "erdos_renyi_modularity"
    /\ number_of_edges(graph) >= 1
    /\ Len(communities) = 2
    /\ communities[1] \cup communities[2] = graph.nodes
    /\ communities[1] \cap communities[2] = {}
    /\ result.kind = "value"
    /\ ~FIsZero(result.v)


QualityFunctions ==
    {"internal_edge_density", "edges_inside", "conductance", "size"}

\* A summary was asked for the metric of a non-empty list of communities
C1_SummaryCall ==
    op.fn \in QualityFunctions /\ op.summary /\ Len(communities) > 0

\* C1 as the specification states it: the summary of a non-empty list has
\* min <= mean <= max and std >= 0.
C1_MeanBetweenMinAndMax ==
    C1_SummaryCall
        => /\ result.kind = "value"
           /\ FLe(result.v.min, result.v.mean)
           /\ FLe(result.v.mean, result.v.max)
           /\ FCmp(result.v.std.sqrt_of, FZero) >= 0

\* Whether x is a value of xs and leq holds from it to every value of xs
C1_Extreme(x, xs, leq(_, _)) ==
    /\ \E i \in 1..Len(xs) : xs[i] = x
    /\ \A i \in 1..Len(xs) : leq(x, xs[i])

FGe(x, y) == FLe(y, x)

\* C1, amended: the summary of a non-empty list has the least and the
\* greatest of the per-community values as min and max, and std >= 0; the
\* mean lies between min and max when the values are whole numbers (size,
\* edges_inside) or the list has at most two communities.  The rounded mean
\* of three equal fractions or more can exceed them.
C1_SummaryWithinRounding ==
    C1_SummaryCall
        => LET values == quality_indexes(graph, communities, op.fn, FALSE).v
           IN  /\ result.kind = "value"
               /\ C1_Extreme(result.v.min, values, FLe)
               /\ C1_Extreme(result.v.max, values, FGe)
               /\ FLe(result.v.min, result.v.max)
               /\ FCmp(result.v.std.sqrt_of, FZero) >= 0
               /\ (Len(communities) <= 2 \/ op.fn \in {"size", "edges_inside"})
                    => /\ FLe(result.v.min, result.v.mean)
                       /\ FLe(result.v.mean, result.v.max)

\* C1 happens: the summary of the conductance of several communities has
\* min < mean < max and std > 0.
C1_Witness ==
    /\ C1_SummaryCall
    /\ op.fn = "conductance"
    /\ result.kind = "value"
    /\ FCmp(result.v.min, result.v.mean) < 0
    /\ FCmp(result.v.mean, result.v.max) < 0
    /\ FCmp(result.v.std.sqrt_of, FZero) > 0

C3_Apply(fn, g, comms) ==
    IF fn = "erdos_renyi_modularity" THEN erdos_renyi_modularity(g, comms)
    ELSE modularity_density(g, comms)

C3_Call == op.fn \in {"erdos_renyi_modularity", "modularity_density"}

\* The list s reordered by the permutation perm of its indices
Permuted(s, perm) == [i \in 1..Len(s) |-> s[perm[i]]]

\* The permutations of 1..k
Perms(k) == {f \in [1..k -> 1..k] : \A i, j \in 1..k : i # j => f[i] # f[j]}

\* The lists that communities can be reordered into
C3_Orders ==
    {Permuted(communities, perm) : perm \in Perms(Len(communities))}

\* C3 as the specification states it: erdos_renyi_modularity and
\* modularity_density give the same outcome for every order of the list.
C3_SameForEveryOrder ==
    C3_Call
        => \A comms \in C3_Orders : C3_Apply(op.fn, graph, comms) = result

\* Whether the floats x and y differ by less than 2^-40
C3_Close(x, y) ==
    LET d == FSub(x, y)
    IN  FIsZero(d) \/ d.e + MantBits <= -40

\* C3, amended: for every order of the list the two functions fail alike or
\* return alike; the values returned are the same for lists of at most two
\* communities, and differ by rounding only (less than 2^-40) for longer
\* lists, the sum of floats depending on its order.
C3_SameUpToRounding ==
    C3_Call
        => \A comms \in C3_Orders :
              LET other == C3_Apply(op.fn, graph, comms)
              IN  /\ other.kind = result.kind
                  /\ Len(communities) <= 2 => other = result
                  /\ result.kind = "value" => C3_Close(other.v, result.v)

\* C3 happens: modularity_density returned a non-zero number for a list of
\* two different communities, which has two orders.
C3_Witness ==
    /\ op.fn = "modularity_density"
    /\ Len(communities) = 2
    /\ communities[1] # communities[2]
    /\ result.kind = "value"
    /\ ~FIsZero(result.v)


\* The nodes of g to which the dictionary gives the index k: those of the
\* k-th community that no later community has
C5_Members(g, comms, k) ==
    {v \in NodesIn(g, comms[k]) : \A j \in (k + 1)..Len(comms) : v \notin comms[j]}

\* e_c/m - (d_c/2m)^2 for the set c of nodes of g
C5_Term(g, c) ==
    FSub(FRat(Cardinality(EdgesIn(g, c)), number_of_edges(g)),
         FSquare(FRat(SumOver([v \in c |-> degree(g, v)], c),
                      2 * number_of_edges(g))))

\* The sum of the terms of the communities of index 1 to k
RECURSIVE C5_Q(_, _, _)
C5_Q(g, comms, k) ==
    IF k = 0 THEN FZero
    ELSE FAdd(C5_Q(g, comms, k - 1), C5_Term(g, C5_Members(g, comms, k)))

\* C5: on a graph with edges newman_girvan_modularity returns the sum over
\* the communities c of e_c/m - (d_c/2m)^2, each node counted in the
\* community whose index it was given, and exactly 0 on the four-node ring
\* with the partition [{0,1},{2,3}].
C5_ModularityFormula ==
    op.fn = "newman_girvan_modularity"
        => /\ number_of_edges(graph) >= 1
                => result = Value(C5_Q(graph, communities, Len(communities)))
           /\ (graph = RingGraph /\ communities = RingPartition)
                => result = Value(FZero)

\* C5 happens: the modularity of the ring with its two halves was computed
\* and is 0.
C5_Witness ==
    /\ op.fn = "newman_girvan_modularity"
    /\ graph = RingGraph
    /\ communities = RingPartition
    /\ result = Value(FZero)

\* The accumulators mmc and dc2m at the end of the loop of z_modularity
C8_Sums == z_loop(graph, communities, 1, FZero, FZero)

\* What C8 states of the sums, with the outcomes it allows when dc2m is 0
\* or 1: a single community with every node gives dc2m = 1, communities
\* without an edge give dc2m = 0, and 0 < dc2m < 1 gives the finite quotient.
C8_Boundary(acc, undefined) ==
    /\ (FIsZero(acc.dc2m) \/ FEq(acc.dc2m, FOne)) => result.kind \in undefined
    /\ (Len(communities) = 1 /\ graph.nodes \subseteq communities[1])
          => FEq(acc.dc2m, FOne)
    /\ (\A i \in 1..Len(communities) : EdgesIn(graph, communities[i]) = {})
          => FIsZero(acc.dc2m)
    /\ (FCmp(FZero, acc.dc2m) < 0 /\ FCmp(acc.dc2m, FOne) < 0)
          => result = Value([num |-> FSub(acc.mmc, acc.dc2m),
                             sqrt_of |-> FMul(acc.dc2m, FSub(FOne, acc.dc2m))])

\* C8 as the specification states it: when dc2m is 0 or 1 z_modularity
\* returns NaN or raises, and returns no other number.
C8_UndefinedIsNaNOrRaise ==
    op.fn = "z_modularity"
        => IF number_of_edges(graph) = 0 /\ Len(communities) > 0
           THEN result.kind = "raise"
           ELSE C8_Boundary(C8_Sums, {"nan", "raise"})

\* C8, amended: when dc2m is 0 or 1 z_modularity returns NaN or an infinity
\* or raises, and never a finite number; the infinity is (mmc - 1)/0 for
\* overlapping communities with mmc # 1.  When 0 < dc2m < 1 it returns the
\* finite quotient (mmc - dc2m)/sqrt(dc2m*(1 - dc2m)).
C8_UndefinedIsNotFinite ==
    op.fn = "z_modularity"
        => IF number_of_edges(graph) = 0 /\ Len(communities) > 0
           THEN result.kind = "raise"
           ELSE C8_Boundary(C8_Sums, {"nan", "inf", "raise"})

\* C8 happens: z_modularity returned an infinity for communities whose
\* dc2m is 1.
C8_Witness ==
    /\ op.fn = "z_modularity"
    /\ number_of_edges(graph) >= 1
    /\ Len(communities) > 0
    /\ FEq(C8_Sums.dc2m, FOne)
    /\ result.kind = "inf"

\* mmc and dc2m after the first k communities, from m and the numbers mcs of
\* edges inside the communities alone
RECURSIVE C10_Sums(_, _, _)
C10_Sums(m, mcs, k) ==
    IF k = 0 THEN [mmc |-> FZero, dc2m |-> FZero]
    ELSE LET acc == C10_Sums(m, mcs, k - 1)
         IN  [mmc  |-> FAdd(acc.mmc, FRat(mcs[k], m)),
              dc2m |-> FAdd(acc.dc2m, FSquare(FRat(2 * mcs[k], 2 * m)))]

C10_EdgeCounts ==
    [i \in 1..Len(communities) |-> Cardinality(EdgesIn(graph, communities[i]))]

\* C10: on a graph with edges the result of z_modularity is a function of m
\* and of the numbers of edges inside the communities, dc being twice mc;
\* the edges between a community and the rest of the graph do not count.
C10_InsideDegreesOnly ==
    (op.fn = "z_modularity" /\ number_of_edges(graph) >= 1)
        => LET acc == C10_Sums(number_of_edges(graph), C10_EdgeCounts,
                               Len(communities))
           IN  result = z_quotient(acc.mmc, acc.dc2m)

\* C10 happens: z_modularity returned a finite number for a list with a
\* community that has an edge inside and an edge to the rest of the graph.
C10_Witness ==
    /\ op.fn = "z_modularity"
    /\ result.kind = "value"
    /\ \E i \in 1..Len(communities) :
          /\ EdgesIn(graph, communities[i]) # {}
          /\ \E e \in graph.edges :
                Cardinality(e \cap communities[i]) = 1


====
